---- MODULE Spec2Model ----
(***************************************************************************)
(* Maintenance Platform API: the request handlers of main_full.py and      *)
(* main_simple.py as a state machine.  One action per route; each action   *)
(* records the request it served (lastReq) and the response it produced    *)
(* (lastResp).  Python strings that the code takes apart (tokens,          *)
(* usernames) are sequences of one-character strings, so that split,       *)
(* startswith, int() and the f-string are computed as the code computes    *)
(* them.                                                                   *)
(***************************************************************************)
EXTENDS Integers, Sequences, FiniteSets, TLC

VARIABLES
    entry,              \* which entry point runs: "main_full" or "main_simple"
    phase,              \* "boot", "serving" or "crashed" (module import raised)
    DATABASE_AVAILABLE, \* main_full.py:18/20
    bound,              \* names the import block of main_full.py has bound
    storeConfigured,    \* environment: get_db yields a session (else None)
    usersDb,            \* the module-level dict USERS_DB of the entry point
    dbEquipment,        \* rows of the store's equipment table
    nPosts,             \* number of POST /api/equipment served so far
    lastIssued,         \* the last successful login: token and user object
    lastReq,            \* the request served last
    lastResp            \* the response to it

vars == <<entry, phase, DATABASE_AVAILABLE, bound, storeConfigured, usersDb,
          dbEquipment, nPosts, lastIssued, lastReq, lastResp>>

----------------------------------------------------------------------------
(* Bounds of the model *)

\* POST /api/equipment requests served in one run
MaxPosts == 2
\* underscore-joined pieces of a token presented to /api/auth/me
MaxParts == 4
\* last day (counted from 2025-01-01) a date string of a request may name
MaxDay == 2

----------------------------------------------------------------------------
(* Python values *)

\* Python's None; a record so that it compares with dicts and objects
None == [isNone |-> TRUE]

\* a value of an Optional field that is not None
Some(x) == [isNone |-> FALSE, value |-> x]

Digits == <<"0", "1", "2", "3", "4", "5", "6", "7", "8", "9">>
LowerCase == <<"a", "b", "c", "d", "e", "f", "g", "h", "i", "j", "k", "l", "m",
               "n", "o", "p", "q", "r", "s", "t", "u", "v", "w", "x", "y", "z">>
UpperCase == <<"A", "B", "C", "D", "E", "F", "G", "H", "I", "J", "K", "L", "M",
               "N", "O", "P", "Q", "R", "S", "T", "U", "V", "W", "X", "Y", "Z">>

Range(f) == {f[i] : i \in DOMAIN f}
IndexOf(f, c) == CHOOSE i \in DOMAIN f : f[i] = c

IsDigit(c) == c \in Range(Digits)
DigitVal(c) == IndexOf(Digits, c) - 1
IsLower(c) == c \in Range(LowerCase)
IsUpper(c) == c \in Range(UpperCase)
IsCased(c) == IsLower(c) \/ IsUpper(c)
ToUpper(c) == IF IsLower(c) THEN UpperCase[IndexOf(LowerCase, c)] ELSE c
ToLower(c) == IF IsUpper(c) THEN LowerCase[IndexOf(UpperCase, c)] ELSE c

\* str(n) for n >= 0
RECURSIVE IntStr(_)
IntStr(n) == IF n < 10 THEN <<Digits[n + 1]>>
             ELSE IntStr(n \div 10) \o <<Digits[(n % 10) + 1]>>

\* str.strip() of the blanks int() ignores
RECURSIVE LStrip(_)
LStrip(s) == IF s # <<>> /\ Head(s) = " " THEN LStrip(Tail(s)) ELSE s
RECURSIVE RStrip(_)
RStrip(s) == IF s # <<>> /\ s[Len(s)] = " "
             THEN RStrip(SubSeq(s, 1, Len(s) - 1)) ELSE s
Strip(s) == RStrip(LStrip(s))

RECURSIVE DigitsVal(_)
DigitsVal(s) == IF s = <<>> THEN 0
                ELSE 10 * DigitsVal(SubSeq(s, 1, Len(s) - 1)) + DigitVal(s[Len(s)])

\* int(s): blanks around, an optional sign, then one or more digits;
\* anything else raises ValueError
ParseInt(s) ==
    LET t == Strip(s)
        signed == t # <<>> /\ Head(t) \in {"+", "-"}
        d == IF signed THEN Tail(t) ELSE t
    IN  IF d # <<>> /\ \A i \in DOMAIN d : IsDigit(d[i])
        THEN [ok |-> TRUE,
              val |-> IF signed /\ Head(t) = "-" THEN 0 - DigitsVal(d)
                      ELSE DigitsVal(d)]
        ELSE [ok |-> FALSE, val |-> 0]

\* token.split("_")
RECURSIVE Split(_)
Split(s) ==
    IF \A i \in DOMAIN s : s[i] # "_" THEN <<s>>
    ELSE LET i == CHOOSE k \in DOMAIN s :
                      s[k] = "_" /\ \A j \in 1..(k - 1) : s[j] # "_"
         IN  <<SubSeq(s, 1, i - 1)>> \o Split(SubSeq(s, i + 1, Len(s)))

\* s.startswith(p)
StartsWith(s, p) == Len(s) >= Len(p) /\ SubSeq(s, 1, Len(p)) = p

\* s.title(): a cased character is upper-cased after an uncased one (or at
\* the start) and lower-cased after a cased one
Title(s) ==
    [i \in DOMAIN s |->
        IF i = 1 \/ ~IsCased(s[i - 1]) THEN ToUpper(s[i]) ELSE ToLower(s[i])]

----------------------------------------------------------------------------
(* String literals of the source *)

TokenWord == <<"t", "o", "k", "e", "n">>
TokenPrefix == <<"t", "o", "k", "e", "n", "_">>
MailDomain == <<"@", "m", "a", "i", "n", "t", "e", "n", "a", "n", "c", "e",
                ".", "c", "o", "m">>
admin == <<"a", "d", "m", "i", "n">>
super1 == <<"s", "u", "p", "e", "r", "1">>
tech1 == <<"t", "e", "c", "h", "1">>

\* the placeholder timestamp "2025-01-01T00:00:00Z": day 0 of the model's
\* calendar, written with the Z suffix
Sentinel == [day |-> 0, hour |-> 0, tz |-> "Z"]

----------------------------------------------------------------------------
(* Dates.  A date string of a request or a response is a record            *)
(* [day, hour, tz]: the calendar day counted from 2025-01-01, the hour of  *)
(* the day, and the text after the time: "Z", "+00:00", "" (no offset) or  *)
(* "bad" (text that is no ISO-8601 date).  A datetime value is             *)
(* [h, aware]: hours since 2025-01-01T00:00 and whether it has a tzinfo.   *)

\* datetime.isoformat()
IsoFormat(dt) ==
    [day |-> dt.h \div 24, hour |-> dt.h % 24,
     tz |-> IF dt.aware THEN "+00:00" ELSE ""]

\* mutant: the Z suffix is handed to fromisoformat as it is
ReplaceZ_Kept(s) == s

\* s.replace('Z', '+00:00')
ReplaceZ(s) == IF s.tz = "Z" THEN [s EXCEPT !.tz = "+00:00"] ELSE s

\* datetime.fromisoformat(s): ValueError unless s is an ISO-8601 date
FromIsoFormat(s) ==
    IF s.tz \in {"+00:00", ""}
    THEN [ok |-> TRUE, dt |-> [h |-> 24 * s.day + s.hour, aware |-> s.tz = "+00:00"]]
    ELSE [ok |-> FALSE, dt |-> None]

----------------------------------------------------------------------------
(* Responses *)

Ok(body) == [status |-> 200, body |-> body]

\* raise HTTPException(status_code=401, detail=...)
Unauthorized(detail) == [status |-> 401, body |-> [detail |-> detail]]

\* an exception that leaves the handler, or that a dependency raises before
\* the handler runs, is answered by the framework with a 500
InternalServerError == [status |-> 500, body |-> [detail |-> "Internal Server Error"]]

NoResponse == [status |-> 0, body |-> [detail |-> "no request served"]]

----------------------------------------------------------------------------
(* The static user table *)

\* main_full.py USERS_DB, as the module defines it
USERS_DB ==
    (admin :> [id |-> 1, username |-> admin, password |-> "admin123", role |-> "admin"])
    @@ (super1 :> [id |-> 2, username |-> super1, password |-> "super123", role |-> "supervisor"])
    @@ (tech1 :> [id |-> 3, username |-> tech1, password |-> "tech123", role |-> "technician"])

\* main_simple.py USERS_DB, as the module defines it
SIMPLE_USERS_DB ==
    (admin :> [id |-> 1, username |-> admin, password |-> "admin123", role |-> "admin"])
    @@ (super1 :> [id |-> 2, username |-> super1, password |-> "super123", role |-> "supervisor"])
    @@ (tech1 :> [id |-> 3, username |-> tech1, password |-> "tech123", role |-> "technician"])

\* dict.get(key): the value, or None
DictGet(d, key) == IF key \in DOMAIN d THEN d[key] ELSE None

\* truth value of a dict, an object or None
Truthy(x) == x # None

\* mutant: the id and the username change places in the token
FormatToken_IdFirst(user) ==
    TokenWord \o <<"_">> \o IntStr(user.id) \o <<"_">> \o user.username

\* f"token_{user['username']}_{user['id']}"
FormatToken(user) == TokenWord \o <<"_">> \o user.username \o <<"_">> \o IntStr(user.id)

----------------------------------------------------------------------------
(* The store: the database layer main_full.py imports: get_db, the        *)
(* security helpers and the ORM models.                                    *)

Session == [isNone |-> FALSE, session |-> TRUE]

\* outcomes of resolving Depends(get_db) for one request
DbOutcomes == IF storeConfigured THEN {"session", "raise"} ELSE {"none"}

\* what get_db yields: a session, or None when no store is configured
get_db(o) == IF o = "session" THEN Session ELSE None

\* outcomes of the queries a handler runs on a session
QueryOutcomes(o) == IF o = "session" THEN {"ok", "raise"} ELSE {"ok"}

HashOf(password) == <<"hash", password>>

\* verify_password(plain, hashed)
verify_password(plain, hashed) == hashed = HashOf(plain)

\* create_access_token(data={"sub": username}): a signed credential,
\* header.payload.signature
create_access_token(sub) ==
    <<"e", "y", "J">> \o <<".">> \o sub \o <<".">> \o <<"s", "i", "g">>

jdoe == <<"j", "d", "o", "e">>

\* rows of the store's users table
StoreUsers ==
    << [id |-> 1, username |-> admin, password_hash |-> HashOf("s3cret"),
        email |-> "admin@plant.example", first_name |-> "Ada", last_name |-> "Min",
        role |-> "admin", is_active |-> TRUE,
        created_at |-> [h |-> 30, aware |-> FALSE], updated_at |-> None],
       [id |-> 4, username |-> jdoe, password_hash |-> HashOf("jdoe-pw"),
        email |-> "jdoe@plant.example", first_name |-> "J", last_name |-> "Doe",
        role |-> "technician", is_active |-> TRUE,
        created_at |-> None, updated_at |-> [h |-> 31, aware |-> FALSE]] >>

\* query(User).filter(User.username == username).first()
FirstByUsername(rows, username) ==
    IF \E i \in DOMAIN rows : rows[i].username = username
    THEN rows[CHOOSE i \in DOMAIN rows :
                  /\ rows[i].username = username
                  /\ \A j \in 1..(i - 1) : rows[j].username # username]
    ELSE None

\* a dependency is resolved before the handler body runs: when it raises,
\* the handler (and any try block in it) is never entered
Dispatch(o, resp) == IF o = "raise" THEN InternalServerError ELSE resp

----------------------------------------------------------------------------
(* Authentication, main_full.py *)

\* the user object of a fallback login and of /api/auth/me
FallbackUser(user) ==
    [id |-> user.id, username |-> user.username,
     email |-> user.username \o MailDomain,
     first_name |-> Title(user.username), last_name |-> "User",
     role |-> user.role, is_active |-> TRUE,
     created_at |-> Sentinel, updated_at |-> Sentinel]

\* mutant: the password comparison is left out
FallbackLogin_AnyPassword(credentials) ==
    LET user == DictGet(usersDb, credentials.username)
    IN  IF ~Truthy(user)
        THEN Unauthorized("Incorrect username or password")
        ELSE Ok([access_token |-> FormatToken(user), token_type |-> "bearer",
                 expires_in |-> 3600, user |-> FallbackUser(user)])

\* login_json, the branch on the hardcoded users
FallbackLogin(credentials) ==
    LET user == DictGet(usersDb, credentials.username)
    IN  IF ~Truthy(user) \/ user.password # credentials.password
        THEN Unauthorized("Incorrect username or password")
        ELSE Ok([access_token |-> FormatToken(user), token_type |-> "bearer",
                 expires_in |-> 3600, user |-> FallbackUser(user)])

\* login_json, the branch on the database
StoreLogin(credentials, q) ==
    IF q = "raise" THEN InternalServerError
    ELSE
    LET user == FirstByUsername(StoreUsers, credentials.username)
    IN  IF ~Truthy(user) \/ ~verify_password(credentials.password, user.password_hash)
        THEN Unauthorized("Incorrect username or password")
        ELSE Ok([access_token |-> create_access_token(user.username),
                 token_type |-> "bearer", expires_in |-> 3600,
                 user |-> [id |-> user.id, username |-> user.username,
                           email |-> user.email, first_name |-> user.first_name,
                           last_name |-> user.last_name, role |-> user.role,
                           is_active |-> user.is_active,
                           created_at |-> IF Truthy(user.created_at)
                                          THEN IsoFormat(user.created_at) ELSE Sentinel,
                           updated_at |-> IF Truthy(user.updated_at)
                                          THEN IsoFormat(user.updated_at) ELSE Sentinel]])

\* POST /api/auth/login-json
login_json(credentials, db, q) ==
    IF DATABASE_AVAILABLE /\ Truthy(db)
    THEN StoreLogin(credentials, q)
    ELSE FallbackLogin(credentials)

\* the try block of get_current_user up to the look-up: split, index,
\* int(), USERS_DB.get.  The user found, or None when the block raises
\* IndexError or ValueError or the HTTPException of the mismatch.
DecodeToken(token, users) ==
    LET parts == Split(token)
    IN  IF Len(parts) < 2 THEN None
        ELSE IF Len(parts) < 3 THEN None
        ELSE LET username == parts[2]
                 parsed == ParseInt(parts[3])
                 user == DictGet(users, username)
             IN  IF ~parsed.ok THEN None
                 ELSE IF ~Truthy(user) \/ user.id # parsed.val THEN None
                 ELSE user

\* mutant: a token is accepted only while it is the one the last login
\* issued
get_current_user_LoggedIn(token, db) ==
    IF ~StartsWith(token, TokenPrefix) THEN Unauthorized("Invalid token")
    ELSE LET user == DecodeToken(token, usersDb)
         IN  IF Truthy(user) /\ Truthy(lastIssued) /\ lastIssued.token = token
             THEN Ok(FallbackUser(user))
             ELSE Unauthorized("Invalid token")

\* GET /api/auth/me; the database branch is `pass`
get_current_user(token, db) ==
    IF ~StartsWith(token, TokenPrefix) THEN Unauthorized("Invalid token")
    ELSE LET user == DecodeToken(token, usersDb)
         IN  IF Truthy(user) THEN Ok(FallbackUser(user))
             ELSE Unauthorized("Invalid token")

----------------------------------------------------------------------------
(* Authentication, main_simple.py *)

\* POST /api/auth/login (form); response_model=TokenResponse
simple_login(form_data) ==
    LET user == DictGet(usersDb, form_data.username)
    IN  IF ~Truthy(user) \/ user.password # form_data.password
        THEN Unauthorized("Incorrect username or password")
        ELSE Ok([access_token |-> FormatToken(user), token_type |-> "bearer"])

\* POST /api/auth/login-json
simple_login_json(credentials) ==
    LET user == DictGet(usersDb, credentials.username)
    IN  IF ~Truthy(user) \/ user.password # credentials.password
        THEN Unauthorized("Incorrect username or password")
        ELSE Ok([access_token |-> FormatToken(user), token_type |-> "bearer",
                 expires_in |-> 3600, user |-> FallbackUser(user)])

SimpleUser(user) == [id |-> user.id, username |-> user.username, role |-> user.role]

\* GET /api/auth/me
simple_get_current_user(token) ==
    IF ~StartsWith(token, TokenPrefix) THEN Unauthorized("Invalid token")
    ELSE LET user == DecodeToken(token, usersDb)
         IN  IF Truthy(user) THEN Ok(SimpleUser(user))
             ELSE Unauthorized("Invalid token")

----------------------------------------------------------------------------
(* Equipment, main_full.py *)

\* getattr(obj, name, default)
Getattr(obj, name, default) == IF name \in DOMAIN obj THEN obj[name] ELSE default

\* x.isoformat() if hasattr(obj, name) and x else "2025-01-01T00:00:00Z"
Timestamp(obj, name) ==
    IF name \in DOMAIN obj /\ Truthy(obj[name])
    THEN IsoFormat(obj[name]) ELSE Sentinel

\* EquipmentResponse built from an ORM row
EquipmentFromRow(eq) ==
    [id |-> eq.id, name |-> eq.name,
     description |-> Getattr(eq, "description", None),
     status |-> Getattr(eq, "status", "unknown"),
     location |-> Getattr(eq, "location", None),
     site_id |-> Getattr(eq, "site_id", None),
     production_line_id |-> Getattr(eq, "production_line_id", None),
     created_at |-> Timestamp(eq, "created_at"),
     updated_at |-> Timestamp(eq, "updated_at")]

\* the two hardcoded equipment items
FallbackEquipment ==
    << [id |-> 1, name |-> "Compresseur A1",
        description |-> Some("Compresseur principal ligne 1"), status |-> "active",
        location |-> Some("Atelier A"), site_id |-> Some(1),
        production_line_id |-> Some(1),
        created_at |-> Sentinel, updated_at |-> Sentinel],
       [id |-> 2, name |-> "Convoyeur B2",
        description |-> Some("Convoyeur ligne 2"), status |-> "maintenance",
        location |-> Some("Atelier B"), site_id |-> Some(1),
        production_line_id |-> Some(2),
        created_at |-> Sentinel, updated_at |-> Sentinel] >>

\* outcomes of the database branch of get_equipment: the query raises, the
\* conversion of a row raises, or both succeed
EquipmentOutcomes(o) ==
    IF o = "session" THEN {"ok", "raise", "convert_raise"} ELSE {"ok"}

\* GET /api/equipment: the whole body is inside try/except Exception
get_equipment(db, q, rows) ==
    IF DATABASE_AVAILABLE /\ Truthy(db)
    THEN IF q = "ok"
         THEN Ok([items |-> [i \in DOMAIN rows |-> EquipmentFromRow(rows[i])]])
         ELSE Ok([items |-> FallbackEquipment])
    ELSE Ok([items |-> FallbackEquipment])

\* the time the store's server_default=func.now() stamps on a new row
StoreNow == [h |-> 36, aware |-> FALSE]

\* the row the store holds after add, commit and refresh
InsertedRow(equipment_data, rows) ==
    [id |-> Len(rows) + 1, name |-> equipment_data.name,
     description |-> equipment_data.description, status |-> equipment_data.status,
     location |-> equipment_data.location, site_id |-> equipment_data.site_id,
     production_line_id |-> equipment_data.production_line_id,
     created_at |-> StoreNow, updated_at |-> StoreNow]

\* mutant: the submitted status is ignored for the schema default
FallbackCreated_DefaultStatus(equipment_data) ==
    [id |-> 999, name |-> equipment_data.name,
     description |-> equipment_data.description, status |-> "active",
     location |-> equipment_data.location, site_id |-> equipment_data.site_id,
     production_line_id |-> equipment_data.production_line_id,
     created_at |-> Sentinel, updated_at |-> Sentinel]

\* create_equipment, the branch without a database ("Mode test")
FallbackCreated(equipment_data) ==
    [id |-> 999, name |-> equipment_data.name,
     description |-> equipment_data.description, status |-> equipment_data.status,
     location |-> equipment_data.location, site_id |-> equipment_data.site_id,
     production_line_id |-> equipment_data.production_line_id,
     created_at |-> Sentinel, updated_at |-> Sentinel]

\* POST /api/equipment: the response and the table afterwards
create_equipment(equipment_data, db, q, rows) ==
    IF DATABASE_AVAILABLE /\ Truthy(db)
    THEN IF q = "raise"
         THEN [resp |-> InternalServerError, rows |-> rows]
         ELSE LET row == InsertedRow(equipment_data, rows)
              IN  [resp |-> Ok(EquipmentFromRow(row)), rows |-> Append(rows, row)]
    ELSE [resp |-> Ok(FallbackCreated(equipment_data)), rows |-> rows]

----------------------------------------------------------------------------
(* Dashboard and sites, main_full.py *)

\* mutant: the status filter is left out of the count
CountStatus_All(rows, status) == Len(rows)

\* query(Equipment).filter(Equipment.status == status).count()
CountStatus(rows, status) == Cardinality({i \in DOMAIN rows : rows[i].status = status})

\* mutant: without a database the counts are taken over the hardcoded
\* equipment items
get_dashboard_stats_Counted(db, q, rows) ==
    IF DATABASE_AVAILABLE /\ Truthy(db)
    THEN IF q = "raise" THEN InternalServerError
         ELSE Ok([total_equipment |-> Len(rows),
                  active_equipment |-> CountStatus(rows, "active"),
                  maintenance_equipment |-> CountStatus(rows, "maintenance"),
                  out_of_service_equipment |-> CountStatus(rows, "out_of_service"),
                  pending_maintenances |-> 0,
                  completed_maintenances |-> 0])
    ELSE Ok([total_equipment |-> Len(FallbackEquipment),
             active_equipment |-> CountStatus(FallbackEquipment, "active"),
             maintenance_equipment |-> CountStatus(FallbackEquipment, "maintenance"),
             out_of_service_equipment |-> CountStatus(FallbackEquipment, "out_of_service"),
             pending_maintenances |-> 0, completed_maintenances |-> 0])

\* GET /api/dashboard/stats: no try block, a failing query leaves the handler
get_dashboard_stats(db, q, rows) ==
    IF DATABASE_AVAILABLE /\ Truthy(db)
    THEN IF q = "raise" THEN InternalServerError
         ELSE Ok([total_equipment |-> Len(rows),
                  active_equipment |-> CountStatus(rows, "active"),
                  maintenance_equipment |-> CountStatus(rows, "maintenance"),
                  out_of_service_equipment |-> CountStatus(rows, "out_of_service"),
                  pending_maintenances |-> 0,
                  completed_maintenances |-> 0])
    ELSE Ok([total_equipment |-> 25, active_equipment |-> 20,
             maintenance_equipment |-> 3, out_of_service_equipment |-> 2,
             pending_maintenances |-> 5, completed_maintenances |-> 15])

\* rows of the store's sites table
StoreSites ==
    << [id |-> 1, name |-> "Usine Nord", description |-> None,
        location |-> Some("Lille"), created_at |-> [h |-> 10, aware |-> FALSE],
        updated_at |-> None] >>

SiteFromRow(site) ==
    [id |-> site.id, name |-> site.name,
     description |-> Getattr(site, "description", None),
     location |-> Getattr(site, "location", None),
     created_at |-> Timestamp(site, "created_at"),
     updated_at |-> Timestamp(site, "updated_at")]

FallbackSites ==
    << [id |-> 1, name |-> "Site Principal",
        description |-> Some("Site de production principal"),
        location |-> Some("Paris, France"),
        created_at |-> Sentinel, updated_at |-> Sentinel] >>

\* GET /api/sites: no try block, a failing query leaves the handler
get_sites(db, q) ==
    IF DATABASE_AVAILABLE /\ Truthy(db)
    THEN IF q = "raise" THEN InternalServerError
         ELSE Ok([items |-> [i \in DOMAIN StoreSites |-> SiteFromRow(StoreSites[i])]])
    ELSE Ok([items |-> FallbackSites])

----------------------------------------------------------------------------
(* Maintenance calendar, main_full.py *)

\* the last hour a datetime can hold (datetime.max), on the model's
\* calendar: the last hour of day MaxDay
LastHour == 24 * MaxDay + 23

\* (end - start).days: whole days, rounded down
DeltaDays(start, end) == (end.h - start.h) \div 24

Kinds == <<"preventive", "corrective", "inspection">>
\* (the accented e of the first title is written e)
Titles == <<"Maintenance Preventive", "Maintenance Corrective", "Maintenance Inspection">>
Statuses == <<"scheduled", "in_progress", "completed">>
Descriptions == <<"Description de la maintenance 1", "Description de la maintenance 2",
                  "Description de la maintenance 3", "Description de la maintenance 4",
                  "Description de la maintenance 5">>

\* one pass of the loop body for i (0-based), with the day offset that
\* random.randint(0, (end - start).days) returned.  The fields filled by
\* the other random draws (equipment_id, equipment_name, technician) are
\* unconstrained and not part of the record.
MakeEvent(i, start, offset) ==
    LET event_date == [h |-> start.h + 24 * offset, aware |-> start.aware]
    IN  [id |-> i + 1,
         title |-> Titles[(i % 3) + 1],
         start |-> IsoFormat(event_date),
         end |-> IsoFormat([h |-> event_date.h + 2, aware |-> event_date.aware]),
         type |-> Kinds[(i % 3) + 1],
         status |-> Statuses[(i % 3) + 1],
         description |-> Descriptions[i + 1]]

\* does the try block of get_maintenance_calendar raise?  fromisoformat
\* (ValueError), aware minus naive (TypeError), randint on an empty range
\* (ValueError), a datetime past datetime.max (OverflowError)
CalendarRaises(start_date, end_date, draws) ==
    LET s == FromIsoFormat(ReplaceZ(start_date))
        e == FromIsoFormat(ReplaceZ(end_date))
    IN  \/ ~s.ok
        \/ ~e.ok
        \/ s.dt.aware # e.dt.aware
        \/ DeltaDays(s.dt, e.dt) < 0
        \/ \E i \in DOMAIN draws : s.dt.h + 24 * draws[i] + 2 > LastHour

\* GET /api/v1/maintenance/calendar; the database branch is `pass`
get_maintenance_calendar(start_date, end_date, db, draws) ==
    IF CalendarRaises(start_date, end_date, draws)
    THEN Ok([items |-> <<>>])
    ELSE LET start == FromIsoFormat(ReplaceZ(start_date)).dt
         IN  Ok([items |-> [k \in 1..5 |-> MakeEvent(k - 1, start, draws[k])]])

\* the values random.randint(0, (end - start).days) can return; when the
\* handler raises before drawing, nothing is drawn
DrawRange(start_date, end_date) ==
    LET s == FromIsoFormat(ReplaceZ(start_date))
        e == FromIsoFormat(ReplaceZ(end_date))
    IN  IF s.ok /\ e.ok /\ s.dt.aware = e.dt.aware /\ DeltaDays(s.dt, e.dt) >= 0
        THEN 0..DeltaDays(s.dt, e.dt)
        ELSE {0}

----------------------------------------------------------------------------
(* Start-up of main_full.py: the import block and the names the rest of    *)
(* the module evaluates while it is being imported.                        *)

\* the names each import statement of the try block binds, in order
Imports ==
    << {"settings"}, {"get_db"}, {"verify_password", "create_access_token"},
       {"User"}, {"Equipment"}, {"Site"}, {"ProductionLine"}, {"Session"},
       {"List", "Optional"} >>

\* names bound when import number k raises ImportError (k = 0: none raises)
BoundAfter(k) ==
    UNION {Imports[i] : i \in {j \in DOMAIN Imports : k = 0 \/ j < k}}

\* names the module body evaluates after the import block, whatever the
\* mode: Optional in the schema classes, Session in the handler
\* signatures, List in the route decorators; get_db only when
\* DATABASE_AVAILABLE
NamesEvaluated(available) ==
    {"Optional", "Session", "List"} \cup (IF available THEN {"get_db"} ELSE {})

----------------------------------------------------------------------------
(* Inputs of the requests *)

ghost == <<"g", "h", "o", "s", "t">>

LoginNames == {admin, super1, tech1, jdoe, ghost, <<>>}
LoginPasswords == {"admin123", "super123", "tech123", "s3cret", "jdoe-pw", "wrong", ""}
Credentials == [username : LoginNames, password : LoginPasswords]

\* the pieces tokens are put together from, by position
Pieces(k) ==
    IF k = 1 THEN {TokenWord, <<"t", "o", "k">>, <<"e", "y", "J">>}
    ELSE IF k = 2 THEN {admin, super1, tech1, ghost, <<>>}
    ELSE IF k = 3 THEN {<<"1">>, <<"2">>, <<"3">>, <<"4">>, <<"0", "1">>, <<"+", "3">>,
                        <<" ", "2">>, <<"-", "1">>, <<"x">>, <<>>}
    ELSE {<<"x">>, <<"1">>, <<>>}

\* every underscore-joined token of exactly n pieces
RECURSIVE TokensOf(_)
TokensOf(n) ==
    IF n = 1 THEN Pieces(1)
    ELSE {t \o <<"_">> \o p : t \in TokensOf(n - 1), p \in Pieces(n)}

CandidateTokens == UNION {TokensOf(n) : n \in 1..MaxParts}

EquipmentInputs ==
    { [name |-> "Pompe C3", description |-> None, status |-> "active",
       location |-> None, site_id |-> None, production_line_id |-> None],
      [name |-> "Presse D4", description |-> Some("Presse hydraulique"),
       status |-> "out_of_service", location |-> Some("Atelier C"),
       site_id |-> Some(2), production_line_id |-> Some(3)],
      [name |-> "Compresseur A1", description |-> Some("Copie"),
       status |-> "maintenance", location |-> None,
       site_id |-> Some(1), production_line_id |-> None] }

DateStrings == [day : 0..MaxDay, hour : {0, 23}, tz : {"Z", "", "bad"}]

----------------------------------------------------------------------------
(* The state machine *)

NoRequest == [kind |-> "none"]

Init ==
    /\ entry \in {"main_full", "main_simple"}
    /\ phase = "boot"
    /\ DATABASE_AVAILABLE = FALSE
    /\ bound = {}
    /\ storeConfigured \in (IF entry = "main_full" THEN BOOLEAN ELSE {FALSE})
    /\ usersDb = (IF entry = "main_full" THEN USERS_DB ELSE SIMPLE_USERS_DB)
    /\ dbEquipment = <<>>
    /\ nPosts = 0
    /\ lastIssued = None
    /\ lastReq = NoRequest
    /\ lastResp = NoResponse

\* importing main_full.py
StartupFull ==
    /\ entry = "main_full" /\ phase = "boot"
    /\ \E k \in 0..Len(Imports) :
          /\ bound' = BoundAfter(k)
          /\ DATABASE_AVAILABLE' = (k = 0)
          /\ phase' = IF NamesEvaluated(k = 0) \subseteq BoundAfter(k)
                      THEN "serving" ELSE "crashed"
    /\ UNCHANGED <<entry, usersDb, storeConfigured, dbEquipment, nPosts, lastIssued,
                   lastReq, lastResp>>

\* importing main_simple.py
StartupSimple ==
    /\ entry = "main_simple" /\ phase = "boot"
    /\ phase' = "serving"
    /\ UNCHANGED <<entry, usersDb, DATABASE_AVAILABLE, bound, storeConfigured, dbEquipment,
                   nPosts, lastIssued, lastReq, lastResp>>

\* the entry point e is up and no exchange is in progress: the handlers
\* are coroutines without an await, so requests are served one at a time
Serving(e) == entry = e /\ phase = "serving" /\ lastReq = NoRequest

\* what a successful login leaves behind
Issued(resp, username, o) ==
    IF resp.status = 200
    THEN [isNone |-> FALSE, token |-> resp.body.access_token, username |-> username,
          user |-> IF "user" \in DOMAIN resp.body THEN resp.body.user ELSE None,
          store |-> (o = "session")]
    ELSE lastIssued

LoginJson ==
    /\ Serving("main_full")
    /\ \E c \in Credentials, o \in DbOutcomes :
        \E q \in QueryOutcomes(o) :
          LET resp == Dispatch(o, login_json(c, get_db(o), q))
          IN  /\ lastReq' = [kind |-> "login_json", username |-> c.username,
                             password |-> c.password, db |-> o, q |-> q]
              /\ lastResp' = resp
              /\ lastIssued' = Issued(resp, c.username, o)
    /\ UNCHANGED <<entry, usersDb, phase, DATABASE_AVAILABLE, bound, storeConfigured,
                   dbEquipment, nPosts>>

\* tokens a client can present: made-up ones and the one it was issued
Presentable == CandidateTokens \cup (IF Truthy(lastIssued) THEN {lastIssued.token} ELSE {})

Me ==
    /\ Serving("main_full")
    /\ \E token \in Presentable, o \in DbOutcomes :
          /\ lastReq' = [kind |-> "me", token |-> token, db |-> o]
          /\ lastResp' = Dispatch(o, get_current_user(token, get_db(o)))
    /\ UNCHANGED <<entry, usersDb, phase, DATABASE_AVAILABLE, bound, storeConfigured,
                   dbEquipment, nPosts, lastIssued>>

SimpleLogin ==
    /\ Serving("main_simple")
    /\ \E c \in Credentials :
          LET resp == simple_login(c)
          IN  /\ lastReq' = [kind |-> "login", username |-> c.username,
                             password |-> c.password, db |-> "none", q |-> "ok"]
              /\ lastResp' = resp
              /\ lastIssued' = Issued(resp, c.username, "none")
    /\ UNCHANGED <<entry, usersDb, phase, DATABASE_AVAILABLE, bound, storeConfigured,
                   dbEquipment, nPosts>>

SimpleLoginJson ==
    /\ Serving("main_simple")
    /\ \E c \in Credentials :
          LET resp == simple_login_json(c)
          IN  /\ lastReq' = [kind |-> "login_json", username |-> c.username,
                             password |-> c.password, db |-> "none", q |-> "ok"]
              /\ lastResp' = resp
              /\ lastIssued' = Issued(resp, c.username, "none")
    /\ UNCHANGED <<entry, usersDb, phase, DATABASE_AVAILABLE, bound, storeConfigured,
                   dbEquipment, nPosts>>

SimpleMe ==
    /\ Serving("main_simple")
    /\ \E token \in Presentable :
          /\ lastReq' = [kind |-> "me", token |-> token, db |-> "none"]
          /\ lastResp' = simple_get_current_user(token)
    /\ UNCHANGED <<entry, usersDb, phase, DATABASE_AVAILABLE, bound, storeConfigured,
                   dbEquipment, nPosts, lastIssued>>

GetEquipment ==
    /\ Serving("main_full")
    /\ \E o \in DbOutcomes :
        \E q \in EquipmentOutcomes(o) :
          /\ lastReq' = [kind |-> "get_equipment", db |-> o, q |-> q]
          /\ lastResp' = Dispatch(o, get_equipment(get_db(o), q, dbEquipment))
    /\ UNCHANGED <<entry, usersDb, phase, DATABASE_AVAILABLE, bound, storeConfigured,
                   dbEquipment, nPosts, lastIssued>>

CreateEquipment ==
    /\ Serving("main_full")
    /\ nPosts < MaxPosts
    /\ \E data \in EquipmentInputs, o \in DbOutcomes :
        \E q \in QueryOutcomes(o) :
          LET r == create_equipment(data, get_db(o), q, dbEquipment)
          IN  /\ lastReq' = [kind |-> "create_equipment", data |-> data,
                             db |-> o, q |-> q]
              /\ lastResp' = Dispatch(o, r.resp)
              /\ dbEquipment' = IF o = "raise" THEN dbEquipment ELSE r.rows
    /\ nPosts' = nPosts + 1
    /\ UNCHANGED <<entry, usersDb, phase, DATABASE_AVAILABLE, bound, storeConfigured,
                   lastIssued>>

GetDashboardStats ==
    /\ Serving("main_full")
    /\ \E o \in DbOutcomes :
        \E q \in QueryOutcomes(o) :
          /\ lastReq' = [kind |-> "get_dashboard_stats", db |-> o, q |-> q]
          /\ lastResp' = Dispatch(o, get_dashboard_stats(get_db(o), q, dbEquipment))
    /\ UNCHANGED <<entry, usersDb, phase, DATABASE_AVAILABLE, bound, storeConfigured,
                   dbEquipment, nPosts, lastIssued>>

GetSites ==
    /\ Serving("main_full")
    /\ \E o \in DbOutcomes :
        \E q \in QueryOutcomes(o) :
          /\ lastReq' = [kind |-> "get_sites", db |-> o, q |-> q]
          /\ lastResp' = Dispatch(o, get_sites(get_db(o), q))
    /\ UNCHANGED <<entry, usersDb, phase, DATABASE_AVAILABLE, bound, storeConfigured,
                   dbEquipment, nPosts, lastIssued>>

GetMaintenanceCalendar ==
    /\ Serving("main_full")
    /\ \E start_date \in DateStrings, end_date \in DateStrings, o \in DbOutcomes :
        \E draws \in [1..5 -> DrawRange(start_date, end_date)] :
          /\ lastReq' = [kind |-> "get_maintenance_calendar",
                         start_date |-> start_date, end_date |-> end_date,
                         db |-> o, draws |-> draws]
          /\ lastResp' = Dispatch(o, get_maintenance_calendar(start_date, end_date,
                                                              get_db(o), draws))
    /\ UNCHANGED <<entry, usersDb, phase, DATABASE_AVAILABLE, bound, storeConfigured,
                   dbEquipment, nPosts, lastIssued>>

\* the response leaves the server, which keeps nothing of the exchange
Respond ==
    /\ lastReq # NoRequest
    /\ lastReq' = NoRequest
    /\ lastResp' = NoResponse
    /\ UNCHANGED <<entry, usersDb, phase, DATABASE_AVAILABLE, bound, storeConfigured,
                   dbEquipment, nPosts, lastIssued>>

\* authentication, equipment, dashboard and sites
Next ==
    \/ StartupFull
    \/ StartupSimple
    \/ LoginJson
    \/ Me
    \/ SimpleLogin
    \/ SimpleLoginJson
    \/ SimpleMe
    \/ GetEquipment
    \/ CreateEquipment
    \/ GetDashboardStats
    \/ GetSites
    \/ Respond

Spec == Init /\ [][Next]_vars

\* the maintenance calendar on its own: it reads and writes no state the
\* other handlers use
NextCalendar ==
    \/ StartupFull
    \/ GetMaintenanceCalendar
    \/ Respond

SpecCalendar == Init /\ [][NextCalendar]_vars

----------------------------------------------------------------------------
(* Properties.  What the claims expect is written out here in literals,    *)
(* not through the operators that model the handlers.                      *)

\* the hardcoded users with the token each is expected to be issued
ExpectedLogins ==
    { [username |-> admin, password |-> "admin123", id |-> 1, role |-> "admin",
       token |-> <<"t", "o", "k", "e", "n", "_", "a", "d", "m", "i", "n", "_", "1">>],
      [username |-> super1, password |-> "super123", id |-> 2, role |-> "supervisor",
       token |-> <<"t", "o", "k", "e", "n", "_", "s", "u", "p", "e", "r", "1", "_", "2">>],
      [username |-> tech1, password |-> "tech123", id |-> 3, role |-> "technician",
       token |-> <<"t", "o", "k", "e", "n", "_", "t", "e", "c", "h", "1", "_", "3">>] }

IsLogin == lastReq.kind \in {"login", "login_json"}
IsMe == lastReq.kind = "me"

C2_LoginMeRoundTrip ==
    (/\ IsMe /\ Truthy(lastIssued)
     /\ ~lastIssued.store /\ lastReq.token = lastIssued.token) =>
        /\ lastResp.status = 200
        /\ \E k \in ExpectedLogins :
              /\ k.username = lastIssued.username
              /\ lastResp.body.id = k.id
              /\ lastResp.body.username = k.username
              /\ lastResp.body.role = k.role
        /\ Truthy(lastIssued.user) =>
              /\ lastResp.body.id = lastIssued.user.id
              /\ lastResp.body.username = lastIssued.user.username
              /\ lastResp.body.role = lastIssued.user.role

\* C2 witness: main_full has answered /api/auth/me for the token it issued
\* to super1
C2_Witness ==
    /\ entry = "main_full"
    /\ IsMe /\ Truthy(lastIssued) /\ ~lastIssued.store
    /\ lastReq.token = lastIssued.token
    /\ lastIssued.username = super1
    /\ Truthy(lastIssued.user)

\* C3: /api/auth/me answers 200 only to a token of exactly three
\* underscore-delimited parts, "token", a known username and a number that
\* is this user's id; every other token is a 401.
C3_ExactShape ==
    IsMe /\ lastReq.db # "raise" =>
        LET parts == Split(lastReq.token)
            exact == /\ Len(parts) = 3
                     /\ parts[1] = TokenWord
                     /\ \E k \in ExpectedLogins :
                           /\ parts[2] = k.username
                           /\ ParseInt(parts[3]).ok
                           /\ ParseInt(parts[3]).val = k.id
        IN  IF exact THEN lastResp.status = 200 ELSE lastResp.status = 401

\* C4: whichever branch of login-json issued a token, /api/auth/me accepts
\* it and returns that user.
C4_IssuedTokenAccepted ==
    (/\ IsMe /\ lastReq.db # "raise"
     /\ Truthy(lastIssued) /\ lastReq.token = lastIssued.token) =>
        /\ lastResp.status = 200
        /\ lastResp.body.username = lastIssued.username

\* the two-item fallback list as the claims describe it
IsFallbackList(items) ==
    /\ Len(items) = 2
    /\ items[1].id = 1 /\ items[1].name = "Compresseur A1" /\ items[1].status = "active"
    /\ items[2].id = 2 /\ items[2].name = "Convoyeur B2" /\ items[2].status = "maintenance"

\* the store failed while GET /api/equipment was served: not configured,
\* the session could not be acquired, the query or the conversion raised
StoreFailed == lastReq.db \in {"none", "raise"} \/ lastReq.q # "ok"

\* C5: under any store failure GET /api/equipment is answered 200 with the
\* fixed two-item fallback list.
C5_EquipmentNeverFails ==
    (lastReq.kind = "get_equipment" /\ StoreFailed) =>
        /\ lastResp.status = 200
        /\ IsFallbackList(lastResp.body.items)

\* C6: GET /api/sites and GET /api/dashboard/stats are never answered with
\* a 5xx when the store path raises: the response is a 200.
C6_ReadsNeverFail ==
    (/\ lastReq.kind \in {"get_sites", "get_dashboard_stats"}
     /\ lastReq.db = "session" /\ lastReq.q = "raise") =>
        lastResp.status = 200

\* C7: without a store every POST /api/equipment is answered with id 999
\* and the submitted fields, however many POSTs came before, and GET
\* /api/equipment keeps returning the two items with ids 1 and 2: nothing a
\* POST submitted is stored.
C7_FallbackCreateNotStored ==
    (entry = "main_full" /\ ~storeConfigured) =>
        /\ dbEquipment = <<>>
        /\ lastReq.kind = "create_equipment" =>
              /\ lastResp.status = 200
              /\ lastResp.body.id = 999
              /\ \A f \in {"name", "description", "status", "location",
                           "site_id", "production_line_id"} :
                    lastResp.body[f] = lastReq.data[f]
        /\ lastReq.kind = "get_equipment" =>
              /\ lastResp.status = 200
              /\ IsFallbackList(lastResp.body.items)
              /\ \A i \in DOMAIN lastResp.body.items :
                    lastResp.body.items[i].id # 999

\* C7 witness: the list is read after two POSTs without a store
C7_Witness ==
    /\ entry = "main_full" /\ ~storeConfigured
    /\ nPosts >= 2
    /\ lastReq.kind = "get_equipment"
    /\ lastResp.status = 200

IsCalendar == lastReq.kind = "get_maintenance_calendar"

\* a date string is ISO-8601 (after the Z suffix is read as UTC)
Parses(d) == d.tz # "bad"
\* the instant a date string names, in hours, and whether it has an offset
HourOf(d) == 24 * d.day + d.hour
HasOffset(d) == d.tz \in {"Z", "+00:00"}

\* C8: when both dates parse and start_date is not after end_date, the
\* response holds exactly 5 events with ids 1..5, each starting and ending
\* within [start_date, end_date] and ending 2 hours after it starts.
C8_EventsWithinRange ==
    (/\ IsCalendar /\ lastReq.db # "raise"
     /\ Parses(lastReq.start_date) /\ Parses(lastReq.end_date)
     /\ HasOffset(lastReq.start_date) = HasOffset(lastReq.end_date)
     /\ HourOf(lastReq.start_date) <= HourOf(lastReq.end_date)) =>
        LET lo == HourOf(lastReq.start_date)
            hi == HourOf(lastReq.end_date)
            events == lastResp.body.items
        IN  /\ lastResp.status = 200
            /\ Len(events) = 5
            /\ \A i \in DOMAIN events :
                  /\ events[i].id = i
                  /\ lo <= HourOf(events[i].start) /\ HourOf(events[i].start) <= hi
                  /\ lo <= HourOf(events[i].end) /\ HourOf(events[i].end) <= hi
                  /\ HourOf(events[i].end) = HourOf(events[i].start) + 2

\* C9 as claimed: every calendar request is answered 200, with an empty
\* list exactly when one of the date strings fails to parse and with 5
\* events otherwise.
C9_EmptyOnlyOnParseFailure ==
    IsCalendar =>
        /\ lastResp.status = 200
        /\ IF Parses(lastReq.start_date) /\ Parses(lastReq.end_date)
           THEN Len(lastResp.body.items) = 5
           ELSE lastResp.body.items = <<>>

\* the date strings for which the handler's try block raises: one does not
\* parse, one has an offset and the other none, start is after end, or an
\* event would end after the last representable hour
DatesRejected(req) ==
    \/ ~Parses(req.start_date)
    \/ ~Parses(req.end_date)
    \/ HasOffset(req.start_date) # HasOffset(req.end_date)
    \/ HourOf(req.start_date) > HourOf(req.end_date)
    \/ \E i \in DOMAIN req.draws :
          HourOf(req.start_date) + 24 * req.draws[i] + 2 > 24 * MaxDay + 23

\* C9 amended: the date strings never cause an error: the response is a 500
\* only when the session dependency raises; otherwise it is a 200, with an
\* empty list exactly for the rejected date pairs and 5 events for the rest.
C9_EmptyOnEveryHandlerError ==
    IsCalendar =>
        IF lastReq.db = "raise" THEN lastResp.status = 500
        ELSE /\ lastResp.status = 200
             /\ IF DatesRejected(lastReq)
                THEN lastResp.body.items = <<>>
                ELSE Len(lastResp.body.items) = 5

\* C9 witness: both dates parse, start is a day after end, the list is empty
C9_Witness ==
    /\ IsCalendar /\ lastReq.db # "raise"
    /\ Parses(lastReq.start_date) /\ Parses(lastReq.end_date)
    /\ HasOffset(lastReq.start_date) /\ HasOffset(lastReq.end_date)
    /\ HourOf(lastReq.start_date) = HourOf(lastReq.end_date) + 24
    /\ lastResp.status = 200
    /\ lastResp.body.items = <<>>

\* C10: without a store GET /api/dashboard/stats returns the literal counts
\* 25, 20, 3, 2, 5, 15 whatever was served before; served from the store,
\* pending_maintenances and completed_maintenances are 0.
C10_DashboardCounts ==
    (lastReq.kind = "get_dashboard_stats" /\ lastResp.status = 200) =>
        IF lastReq.db = "none"
        THEN lastResp.body = [total_equipment |-> 25, active_equipment |-> 20,
                              maintenance_equipment |-> 3,
                              out_of_service_equipment |-> 2,
                              pending_maintenances |-> 5,
                              completed_maintenances |-> 15]
        ELSE /\ lastResp.body.pending_maintenances = 0
             /\ lastResp.body.completed_maintenances = 0

\* C10 witness: the fallback counts are read after a POST /api/equipment
C10_Witness ==
    /\ lastReq.kind = "get_dashboard_stats" /\ lastReq.db = "none"
    /\ nPosts >= 1
    /\ lastResp.status = 200

IsStats == lastReq.kind = "get_dashboard_stats"

\* the list GET /api/equipment returns in the mode the last request was
\* served in (same session or none, queries succeeding, same table)
ListInSameMode == get_equipment(get_db(lastReq.db), "ok", dbEquipment).body.items

\* rows of a list with a given status
WithStatus(items, status) == {i \in DOMAIN items : items[i].status = status}

\* the counts the body of a stats response would hold if taken over a list
CountsOver(body, items) ==
    /\ body.total_equipment = Len(items)
    /\ body.active_equipment = Cardinality(WithStatus(items, "active"))
    /\ body.maintenance_equipment = Cardinality(WithStatus(items, "maintenance"))
    /\ body.out_of_service_equipment =
          Cardinality(WithStatus(items, "out_of_service"))

StatusSumWithinTotal(body) ==
    body.active_equipment + body.maintenance_equipment
        + body.out_of_service_equipment <= body.total_equipment

\* C11 as claimed: in every mode the counts of GET /api/dashboard/stats are
\* the counts by status over the list GET /api/equipment returns in that
\* mode, and the three status counts never exceed the total.
C11_CountsOverResolvedList ==
    (IsStats /\ lastResp.status = 200) =>
        /\ CountsOver(lastResp.body, ListInSameMode)
        /\ StatusSumWithinTotal(lastResp.body)

\* C11 amended: served from the store, the counts are the counts by status
\* over the list GET /api/equipment returns from the store; without a store
\* they are the literals 25, 20, 3, 2, which are not the counts over the
\* two-item fallback list; in both modes the three status counts never
\* exceed the total.
C11_CountsOverStoreRows ==
    (IsStats /\ lastResp.status = 200) =>
        /\ lastReq.db = "session" => CountsOver(lastResp.body, ListInSameMode)
        /\ lastReq.db = "none" =>
              /\ lastResp.body.total_equipment = 25
              /\ lastResp.body.active_equipment = 20
              /\ lastResp.body.maintenance_equipment = 3
              /\ lastResp.body.out_of_service_equipment = 2
              /\ Len(ListInSameMode) = 2
        /\ StatusSumWithinTotal(lastResp.body)

\* C11 witness: the counts are served from a store that holds two rows of
\* different status
C11_Witness ==
    /\ IsStats /\ lastReq.db = "session" /\ lastResp.status = 200
    /\ Len(dbEquipment) = 2
    /\ dbEquipment[1].status # dbEquipment[2].status

\* what a token names: the user of the table as the module defines it
\* whose username is the second underscore-delimited part and whose id the
\* third, read as a number; a function of the token alone
NamedBy(token) ==
    LET parts == Split(token)
    IN  IF StartsWith(token, TokenPrefix) /\ Len(parts) >= 3 /\ ParseInt(parts[3]).ok
        THEN {k \in ExpectedLogins : /\ k.username = parts[2]
                                     /\ k.id = ParseInt(parts[3]).val}
        ELSE {}

\* C12: no step changes the user table, and whatever was served before
\* (logins, failed logins, equipment POSTs, other /me calls, or nothing at
\* all) /api/auth/me answers a token by what the token names alone: 200
\* with that user if it names one, 401 if not; only a failure of the
\* session dependency, which reads neither token nor history, is a 500.
C12_TokenOutcomeFixed ==
    [][/\ usersDb' = usersDb
       /\ IsMe' =>
            IF lastReq'.db = "raise" THEN lastResp'.status = 500
            ELSE IF NamedBy(lastReq'.token) = {} THEN lastResp'.status = 401
            ELSE /\ lastResp'.status = 200
                 /\ \A k \in NamedBy(lastReq'.token) :
                       /\ lastResp'.body.id = k.id
                       /\ lastResp'.body.username = k.username
                       /\ lastResp'.body.role = k.role]_vars

\* C12 witness: a token is accepted although no login has taken place, after
\* an equipment POST was served
C12_Witness ==
    /\ IsMe /\ lastResp.status = 200
    /\ ~Truthy(lastIssued)
    /\ nPosts >= 1

\* C13: when an import of the try block of main_full raises ImportError,
\* start-up completes with DATABASE_AVAILABLE = False: every name the
\* module evaluates afterwards is bound, and the application serves.
C13_StartupSurvivesImportError ==
    (entry = "main_full" /\ phase # "boot" /\ ~DATABASE_AVAILABLE) =>
        /\ NamesEvaluated(FALSE) \subseteq bound
        /\ phase = "serving"

====
